---- MODULE Spec2Model ----
(***************************************************************************)
(* Model of the realtime transcription subsystem of Insightron             *)
(* (src/realtime/realtime_transcriber.py, class RealtimeTranscriber).      *)
(*                                                                         *)
(* Samples are integer amplitude levels.  One model sample stands for one  *)
(* audio sample; buffer_size, chunk_samples and stride_samples are the     *)
(* sample counts __init__ derives from the configuration.  The squared     *)
(* silence threshold is expressed in squared amplitude levels, so that     *)
(*   sqrt(mean(x^2)) < silence_threshold  <=>  SumSq(x) < ThrSq * Len(x).  *)
(*                                                                         *)
(* The specifications share the same actions:                              *)
(*   Spec      the whole lifecycle: caller (start / stop), the device      *)
(*             callback thread and the processor threads;                  *)
(*   SpecProc  one running session (the state after a successful start),   *)
(*             for every small configuration: device callback and the one  *)
(*             processor thread;                                           *)
(*   SpecRec   one running session of one configuration, with the caller   *)
(*             saving the recording at any moment;                         *)
(*   SpecQuery one running session with a level callback, which the caller *)
(*             stops and queries (save_recording, get_transcription_data); *)
(*   LiveQuery SpecQuery with weak fairness of the processor's steps and   *)
(*             of the engine's return;                                     *)
(*   SpecCfg   the validation of RealtimeConfig (src/config.py).           *)
(* Two more specifications have actions of their own:                      *)
(*   SpecLegacy one running session of the silence-chunked                 *)
(*             RealtimeTranscriber of src/realtime_transcriber.py, which   *)
(*             has the same field names; the caller stops it and saves     *)
(*             the recording;                                              *)
(*   SpecBatch one call of BatchTranscriber.transcribe_batch               *)
(*             (src/transcription/batch_processor.py).                     *)
(***************************************************************************)
EXTENDS Integers, Sequences, FiniteSets, TLC

\* ------------------------------------------------------------------ bounds
MaxBuf == 3        \* largest buffer_size / chunk_samples drawn by InitProc
MaxFrame == 2      \* longest device block (samples)
MaxTotal == 3      \* samples captured in the session of SpecProc and SpecRec
MaxBlocks == 2     \* one-sample blocks captured over all sessions of Spec, and in SpecQuery
MaxThreads == 2    \* processor threads ever spawned (calls of start that get past the guard)
MaxLegacyBlocks == 3  \* one-sample blocks captured in the session of SpecLegacy
MaxBatchFiles == 2    \* files of the batch of SpecBatch

\* amplitude levels of a sample
Samples == {0, 1, 2}
\* squared silence threshold, in squared amplitude levels
ThrSq == 2
\* np.int16 full scale
Int16Max == 32767
\* ModelManager: model.enable_retry and model.max_retries, as configured by
\* default
EnableRetry == TRUE
MaxRetries == 2

None == "None"
\* self.language: transcription.language, by default DEFAULT_LANGUAGE
Language == "auto"
Langs == {"en", "fr"}
Callbacks == {"cbA", "cbB"}
Threads == 1..MaxThreads

VARIABLES
  \* the RealtimeConfig instance of the configuration file (seconds; the
  \* silence threshold in thousandths), validated or not yet
  rt,
  \* configuration derived in __init__
  buffer_size, chunk_samples, stride_samples,
  \* fields of RealtimeTranscriber
  is_running, stop_event, stream, process_thread,
  result_callback, audio_level_callback,
  ring_buffer, write_index, audio_queue, full_audio_buffer,
  transcribed_segments, detected_language,
  \* environment: state of the device stream behind self.stream, the
  \* processor threads (position, local accumulated_samples, window in the
  \* engine, invocations of the recognition model made for it, and, as
  \* observations, the frames it has taken and the windows it has triggered
  \* since the stop flag was set), the caller's
  \* position, the file written by save_recording, the value returned by
  \* get_transcription_data;
  \* process_thread is a thread's number, 0 for None
  dev, thr, caller, saved, data_out,
  \* history variables: observations of the run.  The program state never
  \* depends on them; guards read only spawned and nsamples, to bound the
  \* number of threads and of captured samples
  tick, last_op, captured, written, overlong, triggers, engine_calls, text_calls,
  spawned, joined, nsamples,
  \* the outcome of the last engine call that has ended in this session
  last_out,
  \* what the level callback did in the last block captured in this session
  last_level,
  \* the silence-chunked RealtimeTranscriber: self.thread (0 for None),
  \* self.audio_buffer, self.time_offset (in samples), and the position of
  \* its processing thread
  thread, audio_buffer, time_offset, legacy_pc,
  \* transcribe_batch: the argument max_retries, the BatchState (file table
  \* and statistics), future_to_file (per future its file and whether the
  \* worker is running, has returned a success, or has failed), the futures
  \* as_completed has still to yield, the results dictionary, and the
  \* position of the call
  max_retries, batch_state, future_to_file, to_yield, results, batch_pc

config == <<rt, buffer_size, chunk_samples, stride_samples>>
fields == <<is_running, stop_event, stream, process_thread, result_callback,
            audio_level_callback, ring_buffer, write_index, audio_queue,
            full_audio_buffer, transcribed_segments, detected_language>>
env == <<dev, thr, caller, saved, data_out>>
hist == <<tick, last_op, captured, written, overlong, triggers, engine_calls,
          text_calls, spawned, joined, nsamples, last_out, last_level>>
legacy == <<thread, audio_buffer, time_offset, legacy_pc>>
batch == <<max_retries, batch_state, future_to_file, to_yield, results, batch_pc>>
vars == <<config, fields, env, hist, legacy, batch>>

\* ------------------------------------------------------------------ helpers
RECURSIVE SumSq(_)
SumSq(s) == IF s = <<>> THEN 0 ELSE Head(s) * Head(s) + SumSq(Tail(s))

RECURSIVE Flatten(_)
Flatten(blocks) == IF blocks = <<>> THEN <<>> ELSE Head(blocks) \o Flatten(Tail(blocks))

Zeros(n) == [i \in 1..n |-> 0]

\* all device blocks of 1..n samples
FramesUpTo(n) == UNION {[1..k -> Samples] : k \in 1..n}

\* the last n elements of s (all of s when it is shorter)
LastN(s, n) == IF n >= Len(s) THEN s ELSE SubSeq(s, Len(s) - n + 1, Len(s))

\* Python slice a[lo:hi] of a sequence, 0-based, hi exclusive, clamped
Slice(a, lo, hi) ==
  LET l == IF lo < 0 THEN 0 ELSE lo
      h == IF hi > Len(a) THEN Len(a) ELSE hi
  IN  IF h <= l THEN <<>> ELSE SubSeq(a, l + 1, h)

\* ------------------------------------------------------------------ configuration
\* RealtimeConfig with the defaults of its fields
DefaultRealtime ==
  [sample_rate |-> 16000, buffer_duration_seconds |-> 30, chunk_duration_seconds |-> 5,
   stride_seconds |-> 1, silence_threshold |-> 15, validated |-> TRUE]

\* values of a duration field in the configuration file, around the limits
\* the validation tests
Durations == {-1, 0, 1, 3, 5, 7, 30, 300, 301}
\* values of silence_threshold, in thousandths
Thresholds == {-1, 15, 1001}
SampleRates == {16000, 11025}

\* RealtimeConfig.__post_init__ on the field values c, check after check
PostInit(c) ==
  LET b == IF c.buffer_duration_seconds <= 0 \/ c.buffer_duration_seconds > 300
           THEN 30 ELSE c.buffer_duration_seconds
      k == IF c.chunk_duration_seconds <= 0 \/ c.chunk_duration_seconds > b
           THEN 5 ELSE c.chunk_duration_seconds
      st == IF c.stride_seconds <= 0 \/ c.stride_seconds > k
            THEN 1 ELSE c.stride_seconds
      th == IF c.silence_threshold < 0 \/ c.silence_threshold > 1000
            THEN 15 ELSE c.silence_threshold
  IN  [sample_rate |-> c.sample_rate, buffer_duration_seconds |-> b,
       chunk_duration_seconds |-> k, stride_seconds |-> st, silence_threshold |-> th,
       validated |-> TRUE]

\* the dataclass runs __post_init__ on the values it was constructed with
Validate ==
  /\ ~rt.validated
  /\ rt' = PostInit(rt)
  /\ UNCHANGED <<buffer_size, chunk_samples, stride_samples, fields, env, hist,
                 legacy, batch>>

\* ------------------------------------------------------------------ pure parts
\* RingWrite with the part after the wrap taken from the start of the frame
RingWriteTailUnshifted(rb, wi, data, B) ==
  LET n == Len(data)
      diff == B - wi
  IN  IF wi + n > B
      THEN LET rb1 == [i \in 1..B |-> IF i > wi THEN data[i - wi] ELSE rb[i]]
           IN  IF n - diff > B
               THEN [ring |-> rb1, wi |-> wi, ok |-> FALSE]
               ELSE [ring |-> [i \in 1..B |-> IF i <= n - diff THEN data[i] ELSE rb1[i]],
                     wi |-> n - diff, ok |-> TRUE]
      ELSE [ring |-> [i \in 1..B |-> IF i > wi /\ i <= wi + n THEN data[i - wi] ELSE rb[i]],
            wi |-> wi + n, ok |-> TRUE]

\* RingWrite with the cursor reduced modulo the size of the ring
RingWriteCursorModulo(rb, wi, data, B) ==
  LET n == Len(data)
      diff == B - wi
  IN  IF wi + n > B
      THEN LET rb1 == [i \in 1..B |-> IF i > wi THEN data[i - wi] ELSE rb[i]]
           IN  IF n - diff > B
               THEN [ring |-> rb1, wi |-> wi, ok |-> FALSE]
               ELSE [ring |-> [i \in 1..B |-> IF i <= n - diff THEN data[diff + i] ELSE rb1[i]],
                     wi |-> (n - diff) % B, ok |-> TRUE]
      ELSE [ring |-> [i \in 1..B |-> IF i > wi /\ i <= wi + n THEN data[i - wi] ELSE rb[i]],
            wi |-> (wi + n) % B, ok |-> TRUE]

\* _process_loop, "Update Ring Buffer": the frame data written at cursor wi of
\* the ring rb of B samples.  ok = FALSE is the ValueError numpy raises in the
\* wrap branch when the part after the wrap does not fit the ring (a frame
\* longer than the ring): the first slice assignment has happened, the cursor
\* has not moved.
RingWrite(rb, wi, data, B) ==
  LET n == Len(data)
      diff == B - wi
  IN  IF wi + n > B
      THEN LET rb1 == [i \in 1..B |-> IF i > wi THEN data[i - wi] ELSE rb[i]]
           IN  IF n - diff > B
               THEN [ring |-> rb1, wi |-> wi, ok |-> FALSE]
               ELSE [ring |-> [i \in 1..B |-> IF i <= n - diff THEN data[diff + i] ELSE rb1[i]],
                     wi |-> n - diff, ok |-> TRUE]
      ELSE [ring |-> [i \in 1..B |-> IF i > wi /\ i <= wi + n THEN data[i - wi] ELSE rb[i]],
            wi |-> wi + n, ok |-> TRUE]

\* Window with the wrapped part not shortened by the samples before the cursor
WindowWholeTail(rb, wi, chunk) ==
  IF wi >= chunk
  THEN Slice(rb, wi - chunk, wi)
  ELSE LET part2 == Slice(rb, 0, wi)
           part1 == LastN(rb, chunk)
       IN  part1 \o part2

\* _run_inference, "Extract latest chunk": the chunk samples ending at wi
Window(rb, wi, chunk) ==
  IF wi >= chunk
  THEN Slice(rb, wi - chunk, wi)
  ELSE LET part2 == Slice(rb, 0, wi)
           part1 == LastN(rb, chunk - Len(part2))
       IN  part1 \o part2

\* IsSilent on the energy of the window instead of its mean
IsSilentEnergy(w) == SumSq(w) < ThrSq

\* _run_inference, "Check for silence": rms < self.silence_threshold
IsSilent(w) == SumSq(w) < ThrSq * Len(w)

\* what the caller's text callback can do when it is called
CallbackOutcomes == {"ok", "raises"}

\* what one engine call can do: raise, or return a result without text, or
\* with text; a result carries the language the engine detected, and a
\* result with text what the text callback does with it
EngineOutcomes ==
  {[kind |-> "raise", lang |-> None, cb |-> "none"]} \cup
  {[kind |-> "empty", lang |-> l, cb |-> "none"] : l \in Langs} \cup
  {[kind |-> "text", lang |-> l, cb |-> c] : l \in Langs, c \in CallbackOutcomes}

\* get_transcription_data has not been called yet
NoData == [text |-> <<>>, language |-> None, segments |-> <<>>]

\* no engine call has ended yet
NoResult == [kind |-> "none", lang |-> None, cb |-> "none"]

\* SegmentsAfter when the text callback is called before the segments are
\* stored: its exception skips the storing
SegmentsAfterCallbackFirst(segs, seg, out) ==
  IF out.kind = "text" /\ out.cb # "raises" THEN Append(segs, seg) ELSE segs

\* _run_inference, "if text: # Store segments for note saving": the segments
\* after the result out of the window whose segment is seg; the callback is
\* called after the loop that stores them
SegmentsAfter(segs, seg, out) ==
  IF out.kind = "text" THEN Append(segs, seg) ELSE segs

\* LanguageAfter that takes the language of every result
LanguageAfterLastWins(cur, out) == out.lang

\* _run_inference, "Track detected language from first inference":
\* detected_language after the result out, cur being its value before
LanguageAfter(cur, out) == IF cur = None THEN out.lang ELSE cur

\* TextCallbackInvoked for every window the engine was called for
TextCallbackInvokedPerWindow(out, cb) == cb # None

\* _run_inference, "if text: ... if self.result_callback:
\* self.result_callback(text)": whether the result out makes the call
TextCallbackInvoked(out, cb) == out.kind = "text" /\ cb # None

\* AccAfterInference when the engine's exception leaves _run_inference: the
\* reset of line 218 is skipped and the loop's own except branch takes it
AccAfterInferenceUncaught(acc, out) == IF out.kind = "raise" THEN acc ELSE 0

\* _process_loop, "accumulated_samples = 0", after _run_inference has
\* returned: it returns also when the engine raised (except Exception in
\* _run_inference), acc being the counter before
AccAfterInference(acc, out) == 0

\* save_recording: np.int16(x * 32767) of a sample of amplitude level x,
\* full scale being the largest level
FullScale == CHOOSE m \in Samples : \A x \in Samples : x <= m
ToInt16(x) == (x * Int16Max) \div FullScale

\* ------------------------------------------------------------------ processor thread
Alive(t) == thr[t].pc \in {"check", "get", "engine"}

\* LoopTest of a loop that goes on while frames are queued
LoopTestDrains(stopped, queue) == ~stopped \/ queue # <<>>

\* _process_loop, "while not self.stop_event.is_set()"
LoopTest(stopped, queue) == ~stopped

\* while not self.stop_event.is_set(): the loop goes on
P_Check(t) ==
  /\ thr[t].pc = "check"
  /\ LoopTest(stop_event, audio_queue)
  /\ thr' = [thr EXCEPT ![t].pc = "get"]
  /\ UNCHANGED <<legacy, batch, config, fields, dev, caller, saved, data_out, hist>>

\* while not self.stop_event.is_set(): the loop ends, the thread terminates
P_Exit(t) ==
  /\ thr[t].pc = "check"
  /\ ~LoopTest(stop_event, audio_queue)
  /\ thr' = [thr EXCEPT ![t].pc = "dead"]
  /\ UNCHANGED <<legacy, batch, config, fields, dev, caller, saved, data_out, hist>>

\* AfterQueueEmpty of a queue wait without timeout: the thread stays in get
AfterQueueEmptyBlocks == "get"

\* _process_loop, "except queue.Empty: continue": where the thread goes when
\* the 0.1 s of audio_queue.get have passed without a frame
AfterQueueEmpty == "check"

\* audio_queue.get(timeout=0.1) raises queue.Empty: continue
P_Timeout(t) ==
  /\ thr[t].pc = "get"
  /\ audio_queue = <<>>
  /\ thr' = [thr EXCEPT ![t].pc = AfterQueueEmpty]
  /\ UNCHANGED <<legacy, batch, config, fields, dev, caller, saved, data_out, hist>>

\* StrideReached of a loop that runs the inference after every frame
StrideReachedEveryFrame(acc, stride) == TRUE

\* _process_loop, "if accumulated_samples >= self.stride_samples"
StrideReached(acc, stride) == acc >= stride

\* one frame: dequeue, write into the ring, count, and at the stride run
\* _run_inference up to the engine call
P_Frame(t) ==
  /\ thr[t].pc = "get"
  /\ audio_queue # <<>>
  /\ LET data == Head(audio_queue)
         rw == RingWrite(ring_buffer, write_index, data, buffer_size)
         acc == thr[t].acc + Len(data)
         w == Window(rw.ring, rw.wi, chunk_samples)
         late == IF stop_event THEN thr[t].late + 1 ELSE thr[t].late
         late_trig == IF stop_event THEN thr[t].late_trig + 1 ELSE thr[t].late_trig
     IN  /\ audio_queue' = Tail(audio_queue)
         /\ ring_buffer' = rw.ring
         /\ write_index' = rw.wi
         /\ IF ~rw.ok
            THEN \* except Exception: logged, next iteration
                 /\ overlong' = TRUE
                 /\ thr' = [thr EXCEPT ![t].pc = "check", ![t].late = late]
                 /\ UNCHANGED <<written, triggers, engine_calls>>
            ELSE /\ written' = written \o data
                 /\ overlong' = (overlong \/ Len(data) > buffer_size)
                 /\ IF StrideReached(acc, stride_samples)
                    THEN /\ triggers' = triggers + 1
                         /\ IF IsSilent(w)
                            THEN /\ thr' = [thr EXCEPT ![t].pc = "check", ![t].acc = 0,
                                                       ![t].late = late,
                                                       ![t].late_trig = late_trig]
                                 /\ UNCHANGED engine_calls
                            ELSE /\ thr' = [thr EXCEPT ![t].pc = "engine", ![t].acc = acc,
                                                       ![t].win = w, ![t].ticket = triggers + 1,
                                                       ![t].attempt = 1,
                                                       ![t].late = late,
                                                       ![t].late_trig = late_trig]
                                 /\ engine_calls' = engine_calls + 1
                    ELSE /\ thr' = [thr EXCEPT ![t].pc = "check", ![t].acc = acc,
                                               ![t].late = late]
                         /\ UNCHANGED <<triggers, engine_calls>>
  /\ UNCHANGED <<legacy, batch, config, is_running, stop_event, stream, process_thread, result_callback,
                 audio_level_callback, full_audio_buffer, transcribed_segments,
                 detected_language, dev, caller, saved, data_out, tick, last_op, captured,
                 text_calls, spawned, joined, nsamples, last_out, last_level>>

\* ModelManager.transcribe -> _transcribe_with_retry: the invocation of
\* model.transcribe has raised and attempts remain, the model is invoked
\* again for the same window
P_Retry(t) ==
  /\ thr[t].pc = "engine"
  /\ EnableRetry
  /\ thr[t].attempt < MaxRetries + 1
  /\ thr' = [thr EXCEPT ![t].attempt = @ + 1]
  /\ UNCHANGED <<legacy, batch, config, fields, dev, caller, saved, data_out, hist>>

\* model_manager.transcribe returns, or raises (all attempts have failed, or
\* the model cannot be loaded), or reading the segments it returned raises;
\* the rest of _run_inference and the reset of the stride counter
P_EngineReturn(t, out) ==
  /\ thr[t].pc = "engine"
  /\ thr' = [thr EXCEPT ![t].pc = "check", ![t].acc = AccAfterInference(thr[t].acc, out),
                         ![t].win = <<>>, ![t].ticket = 0, ![t].attempt = 0]
  /\ last_out' = out
  /\ IF out.kind = "raise"
     THEN UNCHANGED <<detected_language, transcribed_segments>>
     ELSE /\ detected_language' = LanguageAfter(detected_language, out)
          /\ transcribed_segments' = SegmentsAfter(transcribed_segments,
                  [win |-> thr[t].ticket, start |-> 0, end |-> Len(thr[t].win)], out)
  /\ text_calls' = IF TextCallbackInvoked(out, result_callback)
                   THEN text_calls + 1 ELSE text_calls
  /\ UNCHANGED <<legacy, batch, config, is_running, stop_event, stream, process_thread, result_callback,
                 audio_level_callback, ring_buffer, write_index, audio_queue,
                 full_audio_buffer, dev, caller, saved, data_out, tick, last_op, captured, written,
                 overlong, triggers, engine_calls, spawned, joined, nsamples, last_level>>

\* ------------------------------------------------------------------ device callback
\* RecordBlock that keeps only the blocks that are not silent
RecordBlockIfLoud(log, data) == IF IsSilent(data) THEN log ELSE Append(log, data)

\* RecordBlock of a callback that leaves the recording log alone
RecordBlockNotInCallback(log, data) == log

\* _audio_callback, "3. Store for saving"
RecordBlock(log, data) == Append(log, data)

\* what the caller's level callback can do
LevelOutcomes == {"ok", "raised"}

\* ReachesQueue when the exception of the level callback leaves _audio_callback
ReachesQueueUncaught(level_cb, lvl) == level_cb = None \/ lvl # "raised"

\* _audio_callback, "1. Update Audio Level": whether the callback goes on to
\* steps 2 and 3; the level callback is called inside try / except
\* Exception: pass
ReachesQueue(level_cb, lvl) == TRUE

\* QueuePut of a stack: the newest frame is the next one taken
QueuePutFront(q, data) == <<data>> \o q

\* _audio_callback, audio_queue.put(indata.copy()): queue.Queue is first in,
\* first out, and _process_loop takes the head
QueuePut(q, data) == Append(q, data)

\* _audio_callback for one block of the started stream, while is_running
\* (when is_running is false the callback returns without any effect); lvl
\* is what the level callback does when there is one
AudioCallback(data, cap, lvl) ==
  /\ dev = "started"
  /\ is_running
  /\ nsamples + Len(data) <= cap
  /\ nsamples' = nsamples + Len(data)
  /\ captured' = Append(captured, data)
  /\ last_level' = IF audio_level_callback = None THEN "none" ELSE lvl
  /\ IF ReachesQueue(audio_level_callback, lvl)
     THEN /\ audio_queue' = QueuePut(audio_queue, data)
          /\ full_audio_buffer' = RecordBlock(full_audio_buffer, data)
     ELSE UNCHANGED <<audio_queue, full_audio_buffer>>
  /\ UNCHANGED <<legacy, batch, config, is_running, stop_event, stream, process_thread, result_callback,
                 audio_level_callback, ring_buffer, write_index, transcribed_segments,
                 detected_language, env, tick, last_op, written, overlong, triggers,
                 engine_calls, text_calls, spawned, joined, last_out>>

\* ------------------------------------------------------------------ one running session
\* there is no silence-chunked transcriber and no batch
Files == 1..MaxBatchFiles
NoLegacy == thread = 0 /\ audio_buffer = <<>> /\ time_offset = 0 /\ legacy_pc = "unborn"
NoBatch ==
  /\ max_retries = 0
  /\ batch_state = [files |-> [f \in Files |-> [status |-> "none", attempts |-> 0]],
                    statistics |-> [total |-> 0, completed |-> 0, failed |-> 0,
                                    skipped |-> 0],
                    on_disk |-> FALSE]
  /\ future_to_file = <<>> /\ to_yield = {}
  /\ results = [successful |-> <<>>, failed |-> <<>>, total_files |-> 0,
                completed |-> 0, failed_count |-> 0]
  /\ batch_pc = "idle"

NoThread == [pc |-> "unborn", acc |-> 0, win |-> <<>>, ticket |-> 0, attempt |-> 0,
             late |-> 0, late_trig |-> 0]

\* the state after __init__ and one successful start_transcription, for every
\* small configuration (the realtime settings are read unvalidated, so
\* chunk_samples may exceed buffer_size)
InitProc ==
  /\ buffer_size \in 1..MaxBuf
  /\ chunk_samples \in 1..MaxBuf
  /\ stride_samples \in 1..chunk_samples
  /\ rt = DefaultRealtime
  /\ is_running = TRUE /\ stop_event = FALSE
  /\ stream = "handle" /\ dev = "started" /\ process_thread = 1
  /\ result_callback = "cbA" /\ audio_level_callback = None
  /\ ring_buffer = Zeros(buffer_size) /\ write_index = 0
  /\ audio_queue = <<>> /\ full_audio_buffer = <<>>
  /\ transcribed_segments = <<>> /\ detected_language = None
  /\ thr = [t \in Threads |-> IF t = 1 THEN [NoThread EXCEPT !.pc = "check"] ELSE NoThread]
  /\ caller = "idle" /\ saved = <<>> /\ data_out = NoData
  /\ tick = 0 /\ last_op = "start_ok"
  /\ captured = <<>> /\ written = <<>> /\ overlong = FALSE
  /\ triggers = 0 /\ engine_calls = 0 /\ text_calls = 0
  /\ spawned = 1 /\ joined = 0 /\ nsamples = 0
  /\ last_out = NoResult /\ last_level = "none"
  /\ NoLegacy /\ NoBatch

\* ------------------------------------------------------------------ caller
\* device blocks of the lifecycle specification: one silent, one loud sample
LifeFrames == {<<0>>, <<2>>}
\* engine outcomes of the lifecycle specification
LifeOutcomes ==
  {o \in EngineOutcomes : o.lang # "fr" /\ o.kind # "empty" /\ o.cb # "raises"}
\* the callbacks a caller passes to start_transcription
StartArgs == {[cb |-> "cbA", lvl |-> None], [cb |-> "cbB", lvl |-> "lvl"]}
\* what opening the device can do in start_transcription: succeed, or
\* sd.InputStream(...) raises, or stream.start() raises
OpenOutcomes == {"ok", "open_raises", "start_raises"}

\* start_transcription without its guard
AlreadyRunningIgnored == FALSE

\* start_transcription, "if self.is_running: return"
AlreadyRunning == is_running

\* start_transcription(device_index, callback, audio_level_callback) up to
\* the start of the processor thread; on a running session the call returns
\* at once
StartTranscription(arg) ==
  /\ caller = "idle"
  /\ IF AlreadyRunning
     THEN \* if self.is_running: return
          /\ tick' = 1 - tick /\ last_op' = "start_noop"
          /\ UNCHANGED <<legacy, batch, config, fields, env, captured, written, overlong, triggers,
                         engine_calls, text_calls, spawned, joined, nsamples,
                         last_out, last_level>>
     ELSE /\ spawned < MaxThreads
          /\ result_callback' = arg.cb
          /\ audio_level_callback' = arg.lvl
          /\ is_running' = TRUE /\ stop_event' = FALSE
          /\ ring_buffer' = Zeros(buffer_size)
          /\ write_index' = 0
          /\ full_audio_buffer' = <<>>
          /\ transcribed_segments' = <<>>
          /\ detected_language' = None
          /\ audio_queue' = <<>>
          \* threading.Thread(target=self._process_loop).start()
          /\ spawned' = spawned + 1
          /\ process_thread' = spawned + 1
          /\ thr' = [t \in Threads |->
                       IF t = spawned + 1 THEN [NoThread EXCEPT !.pc = "check"]
                       ELSE [thr[t] EXCEPT !.late = 0, !.late_trig = 0]]
          /\ caller' = "open" /\ last_op' = "starting"
          /\ captured' = <<>> /\ written' = <<>> /\ overlong' = FALSE
          /\ triggers' = 0 /\ engine_calls' = 0 /\ text_calls' = 0
          /\ last_out' = NoResult /\ last_level' = "none"
          /\ UNCHANGED <<legacy, batch, config, stream, dev, saved, data_out, tick, joined, nsamples>>

\* start_transcription, the try block: sd.InputStream(...) and stream.start()
\* succeed and the call returns, or one of them raises and the call raises
StartOpen(open) ==
  /\ caller = "open"
  /\ caller' = "idle"
  /\ tick' = 1 - tick
  /\ IF open = "ok"
     THEN /\ stream' = "handle" /\ dev' = "started"
          /\ last_op' = "start_ok"
          /\ UNCHANGED <<is_running, stop_event>>
     ELSE \* except Exception: is_running = False; stop_event.set(); raise
          /\ is_running' = FALSE /\ stop_event' = TRUE
          /\ last_op' = "start_raised"
          /\ IF open = "open_raises"
             THEN UNCHANGED <<stream, dev>>
             ELSE stream' = "handle" /\ dev' = "opened"
  /\ UNCHANGED <<legacy, batch, config, process_thread, result_callback, audio_level_callback,
                 ring_buffer, write_index, audio_queue, full_audio_buffer,
                 transcribed_segments, detected_language, thr, saved, data_out, captured, written,
                 overlong, triggers, engine_calls, text_calls, spawned, joined, nsamples,
                 last_out, last_level>>

\* CloseStream that keeps the handle in self.stream
CloseStreamKeepsHandle ==
  IF stream # None
  THEN stream' = stream /\ dev' = "closed"
  ELSE UNCHANGED <<stream, dev>>

\* stop_transcription, "if self.stream:": stream.stop(), stream.close()
\* (sounddevice ignores PortAudio errors in both; the except branch only
\* logs), then self.stream = None
CloseStream ==
  IF stream # None
  THEN stream' = None /\ dev' = "closed"
  ELSE UNCHANGED <<stream, dev>>

\* stop_transcription up to the join; without a thread to join the call
\* returns here
StopTranscription ==
  /\ caller = "idle"
  /\ is_running' = FALSE
  /\ stop_event' = TRUE
  /\ CloseStream
  /\ IF process_thread # 0
     THEN /\ caller' = "join"
          /\ UNCHANGED <<tick, last_op, joined>>
     ELSE /\ tick' = 1 - tick /\ last_op' = "stop" /\ joined' = 0
          /\ UNCHANGED caller
  /\ UNCHANGED <<legacy, batch, config, process_thread, result_callback, audio_level_callback,
                 ring_buffer, write_index, audio_queue, full_audio_buffer,
                 transcribed_segments, detected_language, thr, saved, data_out, captured, written,
                 overlong, triggers, engine_calls, text_calls, spawned, nsamples,
                 last_out, last_level>>

\* process_thread.join(timeout=2.0) returns: the thread has terminated, or
\* the two seconds have passed while it is inside an engine call (every other
\* step of the loop takes at most the 0.1 s of the queue wait)
StopJoin ==
  /\ caller = "join"
  /\ thr[process_thread].pc \in {"dead", "engine"}
  /\ process_thread' = 0
  /\ caller' = "idle"
  /\ tick' = 1 - tick /\ last_op' = "stop" /\ joined' = process_thread
  /\ UNCHANGED <<legacy, batch, config, is_running, stop_event, stream, result_callback,
                 audio_level_callback, ring_buffer, write_index, audio_queue,
                 full_audio_buffer, transcribed_segments, detected_language, dev, thr,
                 saved, data_out, captured, written, overlong, triggers, engine_calls, text_calls,
                 spawned, nsamples, last_out, last_level>>

\* save_recording(output_path): the samples written to the WAV file, <<>>
\* when it returns None (nothing to save, or the write fails)
SaveRecording(io_ok) ==
  /\ caller = "idle"
  /\ tick' = 1 - tick /\ last_op' = "save"
  /\ saved' = IF full_audio_buffer = <<>> \/ ~io_ok
              THEN <<>>
              ELSE LET full_audio == Flatten(full_audio_buffer)
                   IN  [i \in 1..Len(full_audio) |-> ToInt16(full_audio[i])]
  /\ UNCHANGED <<legacy, batch, config, fields, dev, thr, caller, data_out, captured, written, overlong,
                 triggers, engine_calls, text_calls, spawned, joined, nsamples, last_out, last_level>>

\* TranscriptionData that keeps only the last segment
TranscriptionDataLastSegment ==
  [text |-> [i \in 1..Len(LastN(transcribed_segments, 1)) |->
                LastN(transcribed_segments, 1)[i].win],
   language |-> IF detected_language # None THEN detected_language ELSE Language,
   segments |-> LastN(transcribed_segments, 1)]

\* get_transcription_data: the dictionary it builds; the text of a segment is
\* stood for by the number of its window
TranscriptionData ==
  [text |-> [i \in 1..Len(transcribed_segments) |-> transcribed_segments[i].win],
   language |-> IF detected_language # None THEN detected_language ELSE Language,
   segments |-> transcribed_segments]

\* get_transcription_data()
GetTranscriptionData ==
  /\ caller = "idle"
  /\ tick' = 1 - tick /\ last_op' = "get_data"
  /\ data_out' = TranscriptionData
  /\ UNCHANGED <<legacy, batch, config, fields, dev, thr, caller, saved, captured, written, overlong,
                 triggers, engine_calls, text_calls, spawned, joined, nsamples, last_out, last_level>>

\* ------------------------------------------------------------------ lifecycle
\* the state after __init__
NewTranscriber ==
  /\ buffer_size = 2 /\ chunk_samples = 2 /\ stride_samples \in {1, 2}
  /\ is_running = FALSE /\ stop_event = FALSE
  /\ stream = None /\ dev = "none" /\ process_thread = 0
  /\ result_callback = None /\ audio_level_callback = None
  /\ ring_buffer = Zeros(buffer_size) /\ write_index = 0
  /\ audio_queue = <<>> /\ full_audio_buffer = <<>>
  /\ transcribed_segments = <<>> /\ detected_language = None
  /\ thr = [t \in Threads |-> NoThread]
  /\ caller = "idle" /\ saved = <<>> /\ data_out = NoData
  /\ tick = 0 /\ last_op = "init"
  /\ captured = <<>> /\ written = <<>> /\ overlong = FALSE
  /\ triggers = 0 /\ engine_calls = 0 /\ text_calls = 0
  /\ spawned = 0 /\ joined = 0 /\ nsamples = 0
  /\ last_out = NoResult /\ last_level = "none"
  /\ NoLegacy /\ NoBatch

Init == NewTranscriber /\ rt = DefaultRealtime

Next ==
  \/ \E arg \in StartArgs : StartTranscription(arg)
  \/ \E open \in OpenOutcomes : StartOpen(open)
  \/ StopTranscription
  \/ StopJoin
  \/ \E data \in LifeFrames : AudioCallback(data, MaxBlocks, "ok")
  \/ \E t \in Threads : P_Check(t)
  \/ \E t \in Threads : P_Exit(t)
  \/ \E t \in Threads : P_Timeout(t)
  \/ \E t \in Threads : P_Frame(t)
  \/ \E t \in Threads : P_Retry(t)
  \/ \E t \in Threads, out \in LifeOutcomes : P_EngineReturn(t, out)

Spec == Init /\ [][Next]_vars

NextProc ==
  \/ \E data \in FramesUpTo(MaxFrame) : AudioCallback(data, MaxTotal, "ok")
  \/ \E t \in Threads : P_Check(t)
  \/ \E t \in Threads : P_Timeout(t)
  \/ \E t \in Threads : P_Frame(t)
  \/ \E t \in Threads : P_Retry(t)
  \/ \E t \in Threads, out \in EngineOutcomes : P_EngineReturn(t, out)

SpecProc == InitProc /\ [][NextProc]_vars

\* ------------------------------------------------------------------ recording
\* one running session of one configuration, with the caller saving the
\* recording at any moment
InitRec == InitProc /\ buffer_size = 2 /\ chunk_samples = 2 /\ stride_samples = 2

NextRec ==
  \/ \E data \in FramesUpTo(MaxFrame) : AudioCallback(data, MaxTotal, "ok")
  \/ \E t \in Threads : P_Check(t)
  \/ \E t \in Threads : P_Timeout(t)
  \/ \E t \in Threads : P_Frame(t)
  \/ \E t \in Threads : P_Retry(t)
  \/ \E t \in Threads, out \in LifeOutcomes : P_EngineReturn(t, out)
  \/ \E io_ok \in BOOLEAN : SaveRecording(io_ok)

SpecRec == InitRec /\ [][NextRec]_vars

\* ------------------------------------------------------------------ stop and queries
\* one running session of one configuration, with a level callback, which
\* the caller stops, and whose data the caller queries at any moment
InitQuery ==
  /\ buffer_size = 2 /\ chunk_samples = 2 /\ stride_samples = 1
  /\ rt = DefaultRealtime
  /\ is_running = TRUE /\ stop_event = FALSE
  /\ stream = "handle" /\ dev = "started" /\ process_thread = 1
  /\ result_callback = "cbB" /\ audio_level_callback = "lvl"
  /\ ring_buffer = Zeros(buffer_size) /\ write_index = 0
  /\ audio_queue = <<>> /\ full_audio_buffer = <<>>
  /\ transcribed_segments = <<>> /\ detected_language = None
  /\ thr = [t \in Threads |-> IF t = 1 THEN [NoThread EXCEPT !.pc = "check"] ELSE NoThread]
  /\ caller = "idle" /\ saved = <<>> /\ data_out = NoData
  /\ tick = 0 /\ last_op = "start_ok"
  /\ captured = <<>> /\ written = <<>> /\ overlong = FALSE
  /\ triggers = 0 /\ engine_calls = 0 /\ text_calls = 0
  /\ spawned = 1 /\ joined = 0 /\ nsamples = 0
  /\ last_out = NoResult /\ last_level = "none"
  /\ NoLegacy /\ NoBatch

NextQuery ==
  \/ \E data \in LifeFrames, lvl \in LevelOutcomes : AudioCallback(data, MaxBlocks, lvl)
  \/ \E t \in Threads : P_Check(t)
  \/ \E t \in Threads : P_Exit(t)
  \/ \E t \in Threads : P_Timeout(t)
  \/ \E t \in Threads : P_Frame(t)
  \/ \E t \in Threads : P_Retry(t)
  \/ \E t \in Threads, out \in LifeOutcomes : P_EngineReturn(t, out)
  \/ StopTranscription
  \/ StopJoin
  \/ \E io_ok \in BOOLEAN : SaveRecording(io_ok)
  \/ GetTranscriptionData

SpecQuery == InitQuery /\ [][NextQuery]_vars

\* the same with the scheduling the threads get: a processor thread that can
\* take a step eventually takes it (the queue wait times out after 0.1 s),
\* and an engine call in flight eventually ends
LiveQuery ==
  /\ SpecQuery
  /\ \A t \in Threads :
        /\ WF_vars(P_Check(t)) /\ WF_vars(P_Exit(t))
        /\ WF_vars(P_Timeout(t)) /\ WF_vars(P_Frame(t))
        /\ WF_vars(\E out \in LifeOutcomes : P_EngineReturn(t, out))

\* ------------------------------------------------------------------ validation
\* a RealtimeConfig constructed with any values of the configuration file,
\* before its validation
InitCfg ==
  /\ NewTranscriber /\ stride_samples = 1
  /\ rt \in [sample_rate : SampleRates, buffer_duration_seconds : Durations,
              chunk_duration_seconds : Durations, stride_seconds : Durations,
              silence_threshold : Thresholds, validated : {FALSE}]

NextCfg == Validate

SpecCfg == InitCfg /\ [][NextCfg]_vars

\* ------------------------------------------------------------------ silence-chunked transcriber
\* src/realtime_transcriber.py.  Time is not modelled: whether more than
\* silence_duration seconds have passed since the last loud block is an
\* input of the step that takes a silent block.

\* silence_threshold = 0.015, squared, in squared amplitude levels
LegacyThrSq == 2
\* min_chunk_duration = 1.0 s and the forced transcription after 30.0 s of
\* buffered audio, in samples
MinChunkSamples == 1
ForceSamples == 2

\* what self.model.transcribe and the text callback can do in
\* _transcribe_buffer: segments with text (and the callback returns or
\* raises), no segment, an exception, an exception of a failed allocation
LegacyOutcomes == {"text", "text_cb_raises", "empty", "raise", "raise_alloc"}

\* what the silence-chunked transcriber does not have or touch
modern == <<config, stop_event, process_thread, ring_buffer, write_index,
            detected_language, thr, data_out, written, overlong, triggers,
            engine_calls, spawned, last_out, last_level, batch>>

\* _audio_callback while is_running (otherwise it does nothing): the level
\* callback, whose exception is caught and logged, and the put
LegacyAudioCallback(data) ==
  /\ dev = "started"
  /\ is_running
  /\ nsamples + Len(data) <= MaxLegacyBlocks
  /\ nsamples' = nsamples + Len(data)
  /\ captured' = Append(captured, data)
  /\ audio_queue' = Append(audio_queue, data)
  /\ UNCHANGED <<modern, legacy, is_running, stream, dev, result_callback,
                 audio_level_callback, full_audio_buffer, transcribed_segments, caller,
                 saved, tick, last_op, joined, text_calls>>

\* _process_loop, "while self.is_running": the loop goes on
LegacyCheck ==
  /\ legacy_pc = "check"
  /\ is_running
  /\ legacy_pc' = "get"
  /\ UNCHANGED <<modern, fields, dev, caller, saved, tick, last_op, captured, joined,
                 nsamples, text_calls, thread, audio_buffer, time_offset>>

\* _process_loop, the loop ends: "Process any remaining audio in buffer",
\* then the thread terminates; the frame queue is not read again
LegacyLoopEnd ==
  /\ legacy_pc = "check"
  /\ ~is_running
  /\ legacy_pc' = IF audio_buffer # <<>> THEN "final" ELSE "dead"
  /\ UNCHANGED <<modern, fields, dev, caller, saved, tick, last_op, captured, joined,
                 nsamples, text_calls, thread, audio_buffer, time_offset>>

\* audio_queue.get(timeout=0.1) raises queue.Empty: continue
LegacyTimeout ==
  /\ legacy_pc = "get"
  /\ audio_queue = <<>>
  /\ legacy_pc' = "check"
  /\ UNCHANGED <<modern, fields, dev, caller, saved, tick, last_op, captured, joined,
                 nsamples, text_calls, thread, audio_buffer, time_offset>>

\* rms > self.silence_threshold
LegacyLoud(data) == SumSq(data) > LegacyThrSq * Len(data)

\* one frame: dequeue, append to audio_buffer and to full_audio_buffer, and
\* decide whether to transcribe the buffer; quiet: the last loud block is
\* more than silence_duration seconds old
LegacyFrame(quiet) ==
  /\ legacy_pc = "get"
  /\ audio_queue # <<>>
  /\ LET data == Head(audio_queue)
         buffer_len == Len(Flatten(audio_buffer)) + Len(data)
         silent_long == ~LegacyLoud(data) /\ quiet
     IN  /\ audio_queue' = Tail(audio_queue)
         /\ audio_buffer' = Append(audio_buffer, data)
         /\ full_audio_buffer' = Append(full_audio_buffer, data)
         /\ legacy_pc' = IF (silent_long /\ buffer_len > MinChunkSamples)
                             \/ buffer_len > ForceSamples
                          THEN "engine" ELSE "check"
  /\ UNCHANGED <<modern, is_running, stream, dev, result_callback, audio_level_callback,
                 transcribed_segments, caller, saved, tick, last_op, captured, joined,
                 nsamples, text_calls, thread, time_offset>>

\* _transcribe_buffer from self.model.transcribe on: the segments with the
\* time offset added, the callback, the offset and the buffer reset; an
\* exception is logged and leaves the buffer as it is unless its message
\* tells of a failed allocation
LegacyTranscribeReturn(out) ==
  /\ legacy_pc \in {"engine", "final"}
  /\ legacy_pc' = IF legacy_pc = "engine" THEN "check" ELSE "dead"
  /\ LET n == Len(Flatten(audio_buffer))
     IN  /\ transcribed_segments' =
               IF out \in {"text", "text_cb_raises"}
               THEN Append(transcribed_segments,
                           [start |-> time_offset, end |-> time_offset + n])
               ELSE transcribed_segments
         /\ text_calls' = IF out \in {"text", "text_cb_raises"} /\ result_callback # None
                          THEN text_calls + 1 ELSE text_calls
         /\ IF out \in {"text", "empty", "raise_alloc"}
               \/ (out = "text_cb_raises" /\ result_callback = None)
            THEN time_offset' = time_offset + n /\ audio_buffer' = <<>>
            ELSE UNCHANGED <<time_offset, audio_buffer>>
  /\ UNCHANGED <<modern, is_running, stream, dev, result_callback, audio_level_callback,
                 audio_queue, full_audio_buffer, caller, saved, tick, last_op, captured,
                 joined, nsamples, thread>>

\* stop_transcription up to the join
LegacyStopTranscription ==
  /\ caller = "idle"
  /\ is_running' = FALSE
  /\ IF stream # None
     THEN stream' = None /\ dev' = "closed"
     ELSE UNCHANGED <<stream, dev>>
  /\ IF thread # 0
     THEN /\ caller' = "join"
          /\ UNCHANGED <<tick, last_op, joined>>
     ELSE /\ tick' = 1 - tick /\ last_op' = "stop" /\ joined' = 0
          /\ UNCHANGED caller
  /\ UNCHANGED <<modern, legacy, result_callback, audio_level_callback, audio_queue,
                 full_audio_buffer, transcribed_segments, saved, captured, nsamples,
                 text_calls>>

\* self.thread.join(timeout=5.0) returns: the thread has terminated, or the
\* five seconds have passed while it is inside self.model.transcribe
LegacyStopJoin ==
  /\ caller = "join"
  /\ legacy_pc \in {"dead", "engine", "final"}
  /\ thread' = 0
  /\ caller' = "idle"
  /\ tick' = 1 - tick /\ last_op' = "stop" /\ joined' = thread
  /\ UNCHANGED <<modern, fields, dev, saved, captured, nsamples, text_calls,
                 audio_buffer, time_offset, legacy_pc>>

\* save_recording(output_path): the samples written to the WAV file, <<>>
\* when it returns None (no audio to save, or the write fails)
LegacySaveRecording(io_ok) ==
  /\ caller = "idle"
  /\ tick' = 1 - tick /\ last_op' = "save"
  /\ saved' = IF full_audio_buffer = <<>> \/ ~io_ok
              THEN <<>>
              ELSE LET full_audio == Flatten(full_audio_buffer)
                   IN  [i \in 1..Len(full_audio) |-> ToInt16(full_audio[i])]
  /\ UNCHANGED <<modern, legacy, fields, dev, caller, captured, joined, nsamples,
                 text_calls>>

\* the state after a successful start_transcription
InitLegacy ==
  /\ rt = DefaultRealtime
  /\ buffer_size = 2 /\ chunk_samples = 2 /\ stride_samples = 1
  /\ is_running = TRUE /\ stop_event = FALSE
  /\ stream = "handle" /\ dev = "started" /\ process_thread = 0
  /\ result_callback \in {None, "cbA"} /\ audio_level_callback = None
  /\ ring_buffer = Zeros(buffer_size) /\ write_index = 0
  /\ audio_queue = <<>> /\ full_audio_buffer = <<>>
  /\ transcribed_segments = <<>> /\ detected_language = None
  /\ thr = [t \in Threads |-> NoThread]
  /\ caller = "idle" /\ saved = <<>> /\ data_out = NoData
  /\ tick = 0 /\ last_op = "start_ok"
  /\ captured = <<>> /\ written = <<>> /\ overlong = FALSE
  /\ triggers = 0 /\ engine_calls = 0 /\ text_calls = 0
  /\ spawned = 0 /\ joined = 0 /\ nsamples = 0
  /\ last_out = NoResult /\ last_level = "none"
  /\ thread = 1 /\ audio_buffer = <<>> /\ time_offset = 0 /\ legacy_pc = "check"
  /\ NoBatch

NextLegacy ==
  \/ \E data \in LifeFrames : LegacyAudioCallback(data)
  \/ LegacyCheck
  \/ LegacyLoopEnd
  \/ LegacyTimeout
  \/ \E quiet \in BOOLEAN : LegacyFrame(quiet)
  \/ \E out \in LegacyOutcomes : LegacyTranscribeReturn(out)
  \/ LegacyStopTranscription
  \/ LegacyStopJoin
  \/ \E io_ok \in BOOLEAN : LegacySaveRecording(io_ok)

SpecLegacy == InitLegacy /\ [][NextLegacy]_vars

\* ------------------------------------------------------------------ batch
\* src/transcription/batch_processor.py and batch_state_manager.py.  A file
\* stands for its resolved path; the workers of the pool run in any order.

\* the max_retries arguments of transcribe_batch (2 by default)
RetryLimits == {0, 1, 2}
\* what a worker does with a file: it returns a success, or it fails (the
\* process worker returns status 'failed', the thread worker raises)
WorkerOutcomes == {"ok", "failed"}

\* what transcribe_batch does not touch
notBatch == <<config, fields, env, hist, legacy>>

\* BatchState.add_file
AddFile(bs, f) ==
  [bs EXCEPT !.files[f] = [status |-> "pending", attempts |-> 0],
             !.statistics.total = @ + 1,
             !.on_disk = TRUE]

\* add_file for every file of the list
RECURSIVE AddFiles(_, _)
AddFiles(bs, F) ==
  IF F = {} THEN bs
  ELSE LET f == CHOOSE x \in F : \A y \in F : x <= y
       IN  AddFiles(AddFile(bs, f), F \ {f})

\* set_file_status, old_status_key / new_status_key: the counter of a status
StatKey(status) ==
  CASE status = "success" -> "completed"
    [] status = "failed" -> "failed"
    [] status = "skipped" -> "skipped"
    [] OTHER -> "nokey"

\* BatchState.set_file_status(file_path, status)
SetFileStatus(bs, f, status) ==
  LET b0 == IF bs.files[f].status = "none" THEN AddFile(bs, f) ELSE bs
      prev == b0.files[f].status
      old == StatKey(prev)
      new == StatKey(status)
      st0 == b0.statistics
      st1 == IF prev # status /\ old # "nokey"
             THEN [st0 EXCEPT ![old] = IF @ - 1 < 0 THEN 0 ELSE @ - 1] ELSE st0
      st2 == IF prev # status /\ new # "nokey"
             THEN [st1 EXCEPT ![new] = @ + 1] ELSE st1
  IN  [b0 EXCEPT !.files[f].status = status,
                 !.files[f].attempts = IF status = "failed" THEN @ + 1 ELSE @,
                 !.statistics = st2,
                 !.on_disk = TRUE]

\* BatchState.get_statistics()['pending']
PendingCount(bs) ==
  bs.statistics.total - bs.statistics.completed - bs.statistics.failed
    - bs.statistics.skipped

\* executor.submit for the files of F, in the order of the list
RECURSIVE SubmitAll(_)
SubmitAll(F) ==
  IF F = {} THEN <<>>
  ELSE LET f == CHOOSE x \in F : \A y \in F : x <= y
       IN  <<[file |-> f, state |-> "running"]>> \o SubmitAll(F \ {f})

\* concurrent.futures.as_completed(future_to_file): the futures it will
\* yield are those of the mapping at the moment of the call (fs = set(fs))
AsCompleted(futures) == DOMAIN futures

\* transcribe_batch up to the loop over as_completed: a new BatchState with
\* every file registered, the results dictionary, one future per file
TranscribeBatch(F, r) ==
  /\ batch_pc = "idle"
  /\ max_retries' = r
  /\ batch_state' = AddFiles(batch_state, F)
  /\ results' = [successful |-> <<>>, failed |-> <<>>,
                 total_files |-> batch_state'.statistics.total,
                 completed |-> batch_state'.statistics.completed,
                 failed_count |-> batch_state'.statistics.failed]
  /\ future_to_file' = SubmitAll(F)
  /\ to_yield' = AsCompleted(future_to_file')
  /\ batch_pc' = "loop"
  /\ UNCHANGED notBatch

\* a worker of the pool ends the call of one future
WorkerDone(i, o) ==
  /\ batch_pc = "loop"
  /\ i \in DOMAIN future_to_file
  /\ future_to_file[i].state = "running"
  /\ future_to_file' = [future_to_file EXCEPT ![i].state = o]
  /\ UNCHANGED <<notBatch, max_retries, batch_state, to_yield, results, batch_pc>>

\* one iteration of "for future in as_completed(future_to_file)": the
\* success branch, or the except branch with its retry or its final failure
HandleCompleted(i) ==
  /\ batch_pc = "loop"
  /\ i \in to_yield
  /\ future_to_file[i].state # "running"
  /\ to_yield' = to_yield \ {i}
  /\ LET f == future_to_file[i].file
         bs1 == SetFileStatus(batch_state, f, "in_progress")
         attempts == bs1.files[f].attempts
     IN  IF future_to_file[i].state = "ok"
         THEN /\ batch_state' = SetFileStatus(bs1, f, "success")
              /\ results' = [results EXCEPT !.successful = Append(@, f),
                                            !.completed = @ + 1]
              /\ UNCHANGED future_to_file
         ELSE IF attempts < max_retries
         THEN \* Retry: the new future enters the mapping
              /\ batch_state' = SetFileStatus(bs1, f, "failed")
              /\ future_to_file' = Append(future_to_file, [file |-> f, state |-> "running"])
              /\ UNCHANGED results
         ELSE \* Max retries reached
              /\ batch_state' = SetFileStatus(bs1, f, "failed")
              /\ results' = [results EXCEPT !.failed = Append(@, f),
                                            !.failed_count = @ + 1]
              /\ UNCHANGED future_to_file
  /\ UNCHANGED <<notBatch, max_retries, batch_pc>>

\* as_completed is exhausted, the with block ends (the executor waits for
\* the futures that are still running), the statistics are read, the state
\* file is removed when nothing failed and nothing is pending, and the call
\* returns results
BatchReturn ==
  /\ batch_pc = "loop"
  /\ to_yield = {}
  /\ \A i \in DOMAIN future_to_file : future_to_file[i].state # "running"
  /\ batch_state' = IF batch_state.statistics.failed = 0 /\ PendingCount(batch_state) = 0
                    THEN [batch_state EXCEPT !.on_disk = FALSE] ELSE batch_state
  /\ batch_pc' = "returned"
  /\ UNCHANGED <<notBatch, max_retries, future_to_file, to_yield, results>>

InitBatch == NewTranscriber /\ stride_samples = 1 /\ rt = DefaultRealtime

NextBatch ==
  \/ \E F \in SUBSET Files \ {{}}, r \in RetryLimits : TranscribeBatch(F, r)
  \/ \E i \in 1..(2 * MaxBatchFiles), o \in WorkerOutcomes : WorkerDone(i, o)
  \/ \E i \in 1..(2 * MaxBatchFiles) : HandleCompleted(i)
  \/ BatchReturn

SpecBatch == InitBatch /\ [][NextBatch]_vars

\* ------------------------------------------------------------------ claims
\* a thread that goes on consuming frames: inside an iteration, or at the
\* loop test with the stop flag clear
Consuming(t) == thr[t].pc \in {"get", "engine"} \/ (thr[t].pc = "check" /\ ~stop_event)

\* C1: over any sequence of start_transcription and stop_transcription calls
\* at most one processor thread is alive and consuming the frame queue, no
\* two engine calls are in progress at once, and segments are appended in
\* the order their windows were triggered.
C1_SingleConsumer ==
  /\ Cardinality({t \in Threads : Consuming(t)}) <= 1
  /\ Cardinality({t \in Threads : thr[t].pc = "engine"}) <= 1
  /\ \A i, j \in 1..Len(transcribed_segments) :
       i < j => transcribed_segments[i].win <= transcribed_segments[j].win

\* C2: whenever stop_transcription has returned, the device stream is
\* stopped and closed and the processor thread it joined has terminated (so
\* that thread makes no further engine call, append or callback).
C2_StopTerminates ==
  (last_op = "stop" /\ caller = "idle") =>
     /\ dev \in {"none", "closed"}
     /\ joined # 0 => thr[joined].pc = "dead"

Min(a, b) == IF a <= b THEN a ELSE b

\* C3: ring-buffer round trip: after any sequence of frame writes (each frame
\* no longer than the ring), for every n <= min(samples written, capacity),
\* the trailing window of n samples ending at the write cursor is the last n
\* samples written, in write order.
C3_RingRoundTrip ==
  ~overlong =>
     \A n \in 1..Min(Len(written), buffer_size) :
        Window(ring_buffer, write_index, n) = LastN(written, n)

\* C3 happens: the cursor has wrapped and the engine holds a window read
\* across the wrap
C3_Witness ==
  /\ ~overlong /\ Len(written) > buffer_size
  /\ 0 < write_index /\ write_index < chunk_samples /\ chunk_samples <= buffer_size
  /\ thr[1].pc = "engine" /\ thr[1].win = LastN(written, chunk_samples)

\* C4: once the processor has consumed a stream of exactly k * stride_samples
\* samples (k >= 1), in blocks of any size, it has triggered _run_inference
\* exactly k times.
C4_StrideExact ==
  ( /\ ~overlong /\ audio_queue = <<>> /\ written = Flatten(captured)
    /\ Len(written) > 0 /\ Len(written) % stride_samples = 0 )
  => triggers = Len(written) \div stride_samples

\* C5: a trailing window whose RMS is below the threshold never reaches the
\* engine and changes no session state (segments, detected language, text
\* callback); a window whose RMS is above the threshold is always submitted.
C5_SilenceGate ==
  /\ [](\A t \in Threads : thr[t].pc = "engine" => SumSq(thr[t].win) >= ThrSq * Len(thr[t].win))
  /\ [][triggers' = triggers + 1 =>
          LET w == Window(ring_buffer', write_index', chunk_samples)
          IN  /\ SumSq(w) < ThrSq * Len(w) =>
                   /\ engine_calls' = engine_calls
                   /\ \A t \in Threads : thr'[t].pc # "engine"
                   /\ UNCHANGED <<transcribed_segments, detected_language, text_calls>>
              /\ SumSq(w) > ThrSq * Len(w) =>
                   /\ engine_calls' = engine_calls + 1
                   /\ \E t \in Threads : thr'[t].pc = "engine" /\ thr'[t].win = w]_vars

\* C5 happens: a window was skipped as silent after another one was
\* submitted and answered
C5_Witness ==
  /\ triggers > engine_calls /\ engine_calls > 0
  /\ transcribed_segments # <<>>
  /\ SumSq(Window(ring_buffer, write_index, chunk_samples)) < ThrSq * chunk_samples
  /\ \A t \in Threads : thr[t].pc # "engine"

\* C6: when opening or starting the input stream fails in
\* start_transcription, the error is raised and the session is left Idle:
\* is_running false, no opened stream handle retained, no processor thread
\* alive (so that a following start behaves like a first start).
C6_FailedStartIdle ==
  last_op = "start_raised" =>
     /\ ~is_running
     /\ stream = None
     /\ \A t \in Threads : ~Alive(t)

Idle == ~is_running /\ stop_event /\ stream = None /\ process_thread = 0

\* C7: stop_transcription is idempotent: it raises nothing and leaves the
\* session Idle whenever it returns, also on a transcriber never started,
\* and a stop right after a stop changes no state.
C7_StopIdempotent ==
  [][(tick' # tick /\ last_op' = "stop") =>
        /\ Idle'
        /\ last_op = "stop" => UNCHANGED <<config, fields, env>>]_vars

\* C7 happens: a second stop in a row has returned, after a session that
\* recorded and transcribed
C7_Witness ==
  /\ last_op = "stop" /\ joined = 0 /\ caller = "idle"
  /\ spawned > 0 /\ full_audio_buffer # <<>> /\ transcribed_segments # <<>>

\* the step in which start_transcription is called: it returns at once or
\* goes on to open the device
StartCalled ==
  caller = "idle" /\ (caller' = "open" \/ (tick' # tick /\ last_op' = "start_noop"))

\* C8: start_transcription on an Active session is a no-op: callbacks, ring
\* buffer, cursor, queue, segments, language and recording log unchanged, no
\* second thread, no second stream.
C8_StartNoop ==
  [][(StartCalled /\ is_running) => UNCHANGED <<config, fields, env, spawned>>]_vars

\* C8 happens: start was called on a running session that holds data
C8_Witness ==
  /\ last_op = "start_noop" /\ is_running
  /\ full_audio_buffer # <<>> /\ audio_queue # <<>> /\ transcribed_segments # <<>>
  /\ write_index > 0

\* C9: the recording log holds, in capture order and exactly once, every
\* block the callback received while the session was running, whatever the
\* consumer, the silence gate and the engine did; save_recording writes as
\* many samples as were captured.
C9_RecordingComplete ==
  /\ [](full_audio_buffer = captured)
  /\ [][(saved' # saved /\ saved' # <<>>) => Len(saved') = Len(Flatten(captured))]_vars

\* C9 happens: a silent recording was saved whole while the consumer still
\* had blocks to process and no engine call was made
C9_Witness ==
  /\ last_op = "save" /\ Len(saved) >= 3 /\ Len(saved) = Len(Flatten(captured))
  /\ Len(captured) >= 2 /\ audio_queue # <<>>
  /\ triggers > 0 /\ engine_calls = 0

\* the one frame captured is stride_samples long and has been consumed
OneStrideFrame == captured = <<written>> /\ Len(written) = stride_samples

\* the window in the engine has chunk_samples samples, the untouched zeros
\* first while fewer than chunk_samples samples have been written
WindowShape ==
  \A t \in Threads : thr[t].pc = "engine" =>
     /\ Len(thr[t].win) = chunk_samples
     /\ Len(written) < chunk_samples =>
           thr[t].win = Zeros(chunk_samples - Len(written)) \o written

\* C10 as claimed (for chunk_samples <= buffer_size): every window passed to
\* the engine has chunk_samples samples, zero-filled before the samples
\* written so far, and one frame of stride_samples whose RMS is above the
\* threshold yields exactly one engine call.
C10_LoudFrameOneCall ==
  chunk_samples <= buffer_size =>
     /\ WindowShape
     /\ (OneStrideFrame /\ SumSq(written) > ThrSq * Len(written)) => engine_calls = 1

\* C10 amended: ... one frame of stride_samples yields exactly one trigger,
\* and an engine call exactly when the RMS of the whole zero-padded window
\* of chunk_samples samples is not below the threshold.
C10_WindowOneCall ==
  chunk_samples <= buffer_size =>
     /\ WindowShape
     /\ OneStrideFrame =>
           /\ triggers = 1
           /\ engine_calls = IF SumSq(written) < ThrSq * chunk_samples THEN 0 ELSE 1

\* C10 happens: one loud frame of stride_samples is in the engine as a
\* zero-padded window
C10_Witness ==
  /\ chunk_samples <= buffer_size /\ OneStrideFrame /\ Len(written) < chunk_samples
  /\ thr[1].pc = "engine" /\ engine_calls = 1

\* the step in which the engine call of thread t ends (it returns or raises);
\* last_out' is then the outcome of that call
EngineEnds(t) == thr[t].pc = "engine" /\ thr'[t].pc # "engine"

\* C11: language stickiness: within one session, once detected_language holds
\* a language code no step changes it; an engine result that reports another
\* language leaves it as it is.
C11_LanguageSticky ==
  [][detected_language # None => detected_language' = detected_language]_vars

\* C11 happens: the language is set and the last result, with text, reported
\* the other language
C11_Witness ==
  /\ detected_language = "en"
  /\ last_out.kind = "text" /\ last_out.lang = "fr"
  /\ Len(transcribed_segments) >= 2

\* the engine calls of the session that have ended
EngineAnswered == engine_calls - Cardinality({t \in Threads : thr[t].pc = "engine"})

\* C12 as claimed: the text callback is invoked exactly once for every window
\* submitted to the engine and never for a silent window: as many callback
\* invocations as engine calls that have ended.
C12_CallbackPerWindow == text_calls = EngineAnswered

\* C12 amended: the text callback is invoked at most once per window
\* submitted to the engine: exactly once when the engine returns a result
\* with text (and a callback was given), not at all when the engine raises or
\* the result has no text; no other step, a silent window included, invokes
\* it.
C12_CallbackPerText ==
  [][/\ \A t \in Threads : EngineEnds(t) =>
           text_calls' = IF last_out'.kind = "text" /\ result_callback # None
                         THEN text_calls + 1 ELSE text_calls
     /\ (\A t \in Threads : ~EngineEnds(t)) => text_calls' = text_calls]_vars

\* C12 happens: of two windows submitted, one was answered with text and the
\* last one without, and a further window was silent
C12_Witness ==
  /\ engine_calls = 2 /\ EngineAnswered = 2 /\ text_calls = 1
  /\ last_out.kind = "empty" /\ triggers = 3

\* C13: when the engine raises during a window, only that attempt is lost: no
\* segment is appended, detected_language is unchanged, the text callback is
\* not invoked, the stride counter is reset, and the processor is back at its
\* loop test, alive, to consume later frames and trigger later windows.
C13_EngineRaiseCaught ==
  [][\A t \in Threads : (EngineEnds(t) /\ last_out'.kind = "raise") =>
        /\ UNCHANGED <<transcribed_segments, detected_language, text_calls>>
        /\ thr'[t].acc = 0
        /\ thr'[t].pc = "check" /\ Alive(t)']_vars

\* C13 happens: after an engine call that raised, the processor has consumed
\* a later frame and has a later window in the engine
C13_Witness ==
  /\ last_out.kind = "raise" /\ engine_calls = 2 /\ triggers >= 2
  /\ thr[1].pc = "engine" /\ thr[1].ticket >= 2
  /\ transcribed_segments = <<>> /\ detected_language = None /\ text_calls = 0

\* C14: no retry in the realtime path: for each triggered non-silent window
\* the recognition model is invoked at most once, also when that invocation
\* raises.
C14_NoRetry == \A t \in Threads : thr[t].pc = "engine" => thr[t].attempt <= 1

\* C15: a session can be restarted: when a successful start_transcription
\* returns, the ring buffer is all zeros with the cursor at 0, the frame
\* queue, the recording log and the segment list are empty, detected_language
\* is unset and the new processor's stride counter is 0.
C15_RestartClean ==
  [][(caller = "open" /\ last_op' = "start_ok") =>
        /\ ring_buffer' = Zeros(buffer_size) /\ write_index' = 0
        /\ audio_queue' = <<>> /\ full_audio_buffer' = <<>>
        /\ transcribed_segments' = <<>> /\ detected_language' = None
        /\ thr'[process_thread'].acc = 0]_vars

\* a step of stop_transcription: up to the join, or the return from the join
StopStep ==
  \/ caller = "idle" /\ caller' = "join"
  \/ tick' # tick /\ last_op' = "stop"

\* C16: stop_transcription does not clear or alter the segments,
\* detected_language or the recording log; get_transcription_data and
\* save_recording return the data the session holds, also after the stop, and
\* modify no session state, so that repeating them in the same state gives
\* the same result.
C16_StopKeepsData ==
  [][/\ StopStep => UNCHANGED <<transcribed_segments, detected_language, full_audio_buffer>>
     /\ (tick' # tick /\ last_op' = "get_data") =>
           /\ UNCHANGED <<config, fields>>
           /\ data_out'.segments = transcribed_segments
           /\ data_out'.text = [i \in 1..Len(transcribed_segments) |->
                                   transcribed_segments[i].win]
           /\ data_out'.language \in {detected_language, Language} \ {None}
           /\ detected_language # None => data_out'.language = detected_language
     /\ (tick' # tick /\ last_op' = "save") =>
           /\ UNCHANGED <<config, fields>>
           /\ saved' # <<>> =>
                 saved' = [i \in 1..Len(Flatten(full_audio_buffer)) |->
                             ToInt16(Flatten(full_audio_buffer)[i])]]_vars

\* C16 happens: after stop has returned and the processor has ended, the
\* recording was saved and the data queried, and both hold what the session
\* recorded and transcribed
C16_Witness ==
  /\ ~is_running /\ process_thread = 0 /\ thr[1].pc = "dead" /\ last_op = "get_data"
  /\ Len(transcribed_segments) = 2 /\ data_out.segments = transcribed_segments
  /\ data_out.language = "en"
  /\ Len(saved) = 2 /\ Len(Flatten(full_audio_buffer)) = 2

\* C17: every segment appended carries start and end offsets in the session
\* timeline: the engine's offsets within the window (here the whole window,
\* 0 to its length) plus the session time of the window's first sample,
\* which for a window of chunk_samples samples ending at the last sample
\* written is Len(written) - chunk_samples (time in samples).
C17_SessionOffsets ==
  [][\A t \in Threads :
       ( /\ EngineEnds(t) /\ Len(transcribed_segments') > Len(transcribed_segments)
         /\ chunk_samples <= buffer_size /\ Len(written) >= chunk_samples ) =>
       LET seg == transcribed_segments'[Len(transcribed_segments')]
           first == Len(written) - chunk_samples
       IN  seg.start = first + 0 /\ seg.end = first + chunk_samples]_vars

\* C18: no exception escapes the capture callback: when the caller's level
\* callback raises, the block is still pushed onto the frame queue and
\* appended to the recording log, and the stream stays as it is.
C18_LevelCallbackCaught ==
  [][(nsamples' > nsamples /\ last_level' = "raised") =>
        LET data == captured'[Len(captured')]
        IN  /\ audio_queue' = Append(audio_queue, data)
            /\ full_audio_buffer' = Append(full_audio_buffer, data)
            /\ dev' = dev /\ is_running' = is_running]_vars

\* C18 happens: the level callback raised in the second block, and both
\* blocks are in the recording log and the second one still in the queue
C18_Witness ==
  /\ last_level = "raised" /\ Len(captured) = 2
  /\ full_audio_buffer = captured
  /\ audio_queue = <<captured[2]>>

\* C19: after the validation of RealtimeConfig, for every combination of
\* input values, 0 < stride_seconds <= chunk_duration_seconds <=
\* buffer_duration_seconds <= 300.
C19_ConfigOrdered ==
  rt.validated =>
     /\ 0 < rt.stride_seconds
     /\ rt.stride_seconds <= rt.chunk_duration_seconds
     /\ rt.chunk_duration_seconds <= rt.buffer_duration_seconds
     /\ rt.buffer_duration_seconds <= 300

\* C20 as claimed: the write cursor is advanced modulo the capacity, so
\* 0 <= write_index < buffer_size in every reachable state.
C20_CursorBelowSize == 0 <= write_index /\ write_index < buffer_size

\* C20 amended: 0 <= write_index <= buffer_size in every reachable state,
\* and after every frame write that completes the cursor is
\* ((previous cursor + frame length - 1) mod capacity) + 1: congruent to
\* previous cursor + frame length modulo the capacity, but buffer_size instead
\* of 0 when the frame ends at the end of the buffer.
C20_CursorUpToSize ==
  /\ [](0 <= write_index /\ write_index <= buffer_size)
  /\ [][Len(written') > Len(written) =>
          LET n == Len(written') - Len(written)
          IN  /\ write_index' = ((write_index + n - 1) % buffer_size) + 1
              /\ write_index' % buffer_size = (write_index + n) % buffer_size]_vars

\* C20 happens: the second of two frames has ended exactly at the end of the
\* buffer, the cursor holds buffer_size, and the window read there is the
\* whole buffer in write order
C20_Witness ==
  /\ ~overlong /\ buffer_size >= 2 /\ Len(captured) = 2 /\ Len(written) = buffer_size
  /\ write_index = buffer_size
  /\ Window(ring_buffer, write_index, buffer_size) = written

\* C21: once the stop flag is set by stop_transcription, a processor takes at
\* most one further frame and makes at most one further inference trigger
\* before it terminates.
C21_OneFrameAfterStop ==
  \A t \in Threads : thr[t].late <= 1 /\ thr[t].late_trig <= 1

\* C21 happens: the processor has terminated after one frame and one trigger
\* past the stop, leaving a frame in the queue
C21_Witness ==
  /\ stop_event /\ thr[1].pc = "dead"
  /\ thr[1].late = 1 /\ thr[1].late_trig = 1
  /\ audio_queue # <<>>

\* C22: after stop_transcription has set the stop flag (and no start clears
\* it), every processor thread eventually leaves its loop and terminates,
\* whether the frame queue is empty or not, provided the engine call in
\* flight ends.
C22_ProcessorTerminates ==
  \A t \in Threads : (stop_event /\ Alive(t)) ~> (thr[t].pc = "dead")

\* C22 happens: stop has returned from a join on a thread that has
\* terminated, with a frame left in the queue
C22_Witness ==
  /\ last_op = "stop" /\ joined = 1 /\ process_thread = 0
  /\ thr[1].pc = "dead" /\ Len(audio_queue) >= 1

\* C23 as stated: every frame put on the queue in a session is dequeued and
\* written into the ring, so that once the processor thread has ended the
\* queue is empty and the samples written are the samples captured.
C23_EveryFrameWritten ==
  thr[1].pc = "dead" => (audio_queue = <<>> /\ written = Flatten(captured))

\* C23 as the code has it: the frames captured in a session are, in capture
\* order, the frames written into the ring followed by the frames still in
\* the queue: a frame is dequeued at most once and in capture order, and it
\* is written when it is dequeued (frames no longer than the ring's free
\* wrap); the frames in the queue when the thread ends stay there.
C23_DequeuedOnceInOrder ==
  ~overlong => Flatten(captured) = written \o Flatten(audio_queue)

\* C23 happens: two different frames were captured, the first was written,
\* and the thread ended with the second still in the queue
C23_Witness ==
  /\ thr[1].pc = "dead" /\ Len(captured) = 2 /\ captured[1] # captured[2]
  /\ written = captured[1] /\ audio_queue = <<captured[2]>>

\* C24: in a session a trigger takes at least stride_samples samples written
\* since the trigger before it (since the start for the first one): the
\* samples counted since the last trigger are all in the ring, and after T
\* samples written there have been at most T \div stride_samples triggers,
\* whatever the lengths of the frames.
C24_TriggerRateBounded ==
  /\ [](triggers * stride_samples + thr[1].acc <= Len(written) \/ thr[1].pc = "engine")
  /\ [](triggers <= Len(written) \div stride_samples)
  /\ [][triggers' = triggers + 1 => thr[1].acc + (Len(written') - Len(written)) >= stride_samples]_vars

\* C24 happens: with a stride of two samples, three one-sample frames have
\* been written and there has been one trigger, at the second frame
C24_Witness ==
  /\ stride_samples = 2 /\ Len(captured) = 3 /\ Len(written) = 3
  /\ triggers = 1 /\ thr[1].acc = 1

\* a step of a processor thread, of the device callback, of the reset in
\* start_transcription
ProcessorStep ==
  \E t \in Threads :
     \/ P_Check(t) \/ P_Exit(t) \/ P_Timeout(t) \/ P_Frame(t) \/ P_Retry(t)
     \/ \E out \in EngineOutcomes : P_EngineReturn(t, out)
CallbackStep ==
  \E data \in LifeFrames, lvl \in LevelOutcomes : AudioCallback(data, MaxBlocks, lvl)
StartStep == \E arg \in StartArgs : StartTranscription(arg)

\* C25 as stated: the ring, the cursor, the segments, the detected language
\* and the recording log change only in steps of the processor thread (and
\* in the reset of start_transcription, before the threads of the session
\* exist).
C25_OnlyProcessorWrites ==
  [][ ( \/ ring_buffer' # ring_buffer \/ write_index' # write_index
        \/ transcribed_segments' # transcribed_segments
        \/ detected_language' # detected_language
        \/ full_audio_buffer' # full_audio_buffer )
      => (ProcessorStep \/ StartStep) ]_vars

\* C25 as the code has it: the ring, the cursor, the segments and the
\* detected language change only in steps of the processor thread or in the
\* reset of start_transcription; the recording log is appended to by the
\* device callback, on every block, and is otherwise changed only by that
\* reset: no step of the processor thread changes it, and the callback (the
\* step that captures a block) changes nothing but the queue and the log.
C25_WritersByField ==
  [][ /\ ( \/ ring_buffer' # ring_buffer \/ write_index' # write_index
          \/ transcribed_segments' # transcribed_segments
          \/ detected_language' # detected_language )
        => (ProcessorStep \/ StartStep)
      /\ full_audio_buffer' # full_audio_buffer
        => ((CallbackStep \/ StartStep) /\ ~ProcessorStep)
      /\ Len(captured') = Len(captured) + 1
        => /\ CallbackStep
           /\ full_audio_buffer' = Append(full_audio_buffer, captured'[Len(captured')])
           /\ Len(audio_queue') = Len(audio_queue) + 1
           /\ UNCHANGED <<ring_buffer, write_index, transcribed_segments,
                          detected_language>> ]_vars

\* C25 happens: the callback has put two blocks into the recording log and
\* the processor has written the first of them into the ring
C25_Witness ==
  /\ is_running /\ Len(full_audio_buffer) = 2 /\ Len(audio_queue) = 1
  /\ written = full_audio_buffer[1] /\ write_index = 1

\* C26: detected_language is set only by an engine result that has text: a
\* step that takes it from unset to a language code is the end of an engine
\* call whose result has non-empty text.
C26_LanguageOnlyFromText ==
  [][ (detected_language = None /\ detected_language' # None)
      => (EngineEnds(1) /\ last_out'.kind = "text") ]_vars

\* C27: when the text callback raises, the exception stays inside
\* _run_inference: the segment of that window has been appended, the stride
\* counter is reset and the thread is back at the loop test, from where it
\* takes the next frames.
C27_TextCallbackCaught ==
  [][ ( /\ EngineEnds(1) /\ last_out'.cb = "raises"
        /\ TextCallbackInvoked(last_out', result_callback) )
      => /\ transcribed_segments' =
               Append(transcribed_segments,
                      [win |-> thr[1].ticket, start |-> 0, end |-> Len(thr[1].win)])
         /\ thr'[1].pc = "check" /\ thr'[1].acc = 0 ]_vars

\* C27 happens: the callback raised for the second window, its segment is
\* stored, and a third frame has been written and its window handed to the
\* engine
C27_Witness ==
  /\ last_out.cb = "raises" /\ Len(transcribed_segments) = 2
  /\ transcribed_segments[2].win = 2
  /\ Len(written) = 3 /\ triggers = 3 /\ thr[1].pc = "engine"

\* round(x * 32767) of a sample of amplitude level x: the nearest integer,
\* halves away from zero
RoundedInt16(x) == (2 * x * Int16Max + FullScale) \div (2 * FullScale)

\* C28: every value save_recording writes is round(x * 32767) of the recorded
\* sample x, within -32767 .. 32767 and at most one half away from x * 32767.
C28_SavedIsRounded ==
  \A i \in 1..Len(saved) :
     LET x == Flatten(captured)[i]
     IN  /\ saved[i] = RoundedInt16(x)
         /\ -Int16Max <= saved[i] /\ saved[i] <= Int16Max
         /\ 2 * FullScale * saved[i] - 2 * x * Int16Max \in -FullScale..FullScale

\* C29: in the silence-chunked transcriber, the recording save_recording
\* writes after stop_transcription holds every block the callback enqueued
\* in the session, in capture order, the blocks still queued at stop
\* included.
C29_LegacyRecordingComplete ==
  (last_op = "save" /\ caller = "idle" /\ ~is_running /\ saved # <<>>)
  => saved = [i \in 1..Len(Flatten(captured)) |-> ToInt16(Flatten(captured)[i])]

\* the number of entries of a results list that are for file f
Entries(list, f) == Cardinality({i \in DOMAIN list : list[i] = f})

\* C30: when transcribe_batch returns, every registered file is in exactly
\* one of results['successful'] and results['failed'], and completed +
\* failed_count = total_files.
C30_EveryFileAccounted ==
  batch_pc = "returned" =>
    /\ \A f \in Files :
          batch_state.files[f].status # "none" =>
             Entries(results.successful, f) + Entries(results.failed, f) = 1
    /\ results.completed + results.failed_count = results.total_files

====
